---------------------------- MODULE Spec2Model ----------------------------
(***************************************************************************)
(* Model of plugin/auto_enum.py: the "Auto Enum" action of a disassembler  *)
(* plugin.  One triggered pass (ActionHandler.activate -> main) walks the  *)
(* import table, retypes bool-like and enum-like scalar parameters and     *)
(* commits the changed prototypes to the host type database.               *)
(*                                                                         *)
(* Strings whose characters the code inspects (enum identifiers, enum      *)
(* labels, function names, type names, the file type name) are tuples of   *)
(* one-character strings.  Argument names are only compared for equality   *)
(* and are plain strings.  A Python dict is an insertion-ordered tuple of  *)
(* <<key, value>> pairs with distinct keys.                                *)
(***************************************************************************)
EXTENDS Integers, Sequences, FiniteSets, TLC

VARIABLES
    (* host (disassembler) state *)
    file_type_name,   \* idaapi.get_file_type_name()
    import_table,     \* the import table: tuple of [name, ea]
    tinfo,            \* declared type of every import address
    tinfo0,           \* the declared types before the first pass (history)
    idati,            \* enum types of the host type database: name -> members
    refreshes,        \* number of handle.refresh_view calls
    (* plugin process state *)
    cache,            \* lru_cache of get_or_add_enum: set of <<funcmap, enum_id>>
    passes,           \* number of triggered passes (identity of the FunctionMap)
    pc,               \* "idle" or "loop" (inside the for loop of main)
    func_map_enums,   \* FunctionMap.enums of the pass's FunctionMap
    library_addr,     \* the library_addr dict of the pass
    functions,        \* list(library_addr.items()) of the pass
    idx,              \* position of the for loop in functions
    activated,        \* return value of the last ActionHandler.activate (-1: none)
    trace,            \* history: one record per loop iteration of this pass
    calls,            \* history: one record per get_or_add_enum call
    applied,          \* history: one record per apply_tinfo call
    (* expand_enum called on its own *)
    enum,             \* the dict handed to expand_enum, as it was at the call
    enum_id,          \* the identifier handed to expand_enum
    ret               \* the dict expand_enum returned, or NoDict

vars == <<file_type_name, import_table, tinfo, tinfo0, idati, refreshes, cache,
          passes, pc, func_map_enums, library_addr, functions, idx, activated,
          trace, calls, applied, enum, enum_id, ret>>

hostVars == <<file_type_name, import_table, tinfo, tinfo0, idati, refreshes>>
passVars == <<cache, passes, pc, func_map_enums, library_addr, functions, idx,
              activated, trace, calls, applied>>
expandVars == <<enum, enum_id, ret>>

-----------------------------------------------------------------------------
(* Bounds *)

MaxImports == 2     \* imports in the import table
MaxPasses == 2      \* triggered passes
MaxLabels == 2      \* labels in a dict handed to expand_enum

-----------------------------------------------------------------------------
(* Strings *)

None == <<"None">>          \* Python None where a string is expected
NoDict == <<<<None, -1>>>>  \* no dict returned yet

Digits == {"0", "1", "2", "3", "4", "5", "6", "7", "8", "9"}

UpperCase == <<"A","B","C","D","E","F","G","H","I","J","K","L","M",
               "N","O","P","Q","R","S","T","U","V","W","X","Y","Z">>
LowerCase == <<"a","b","c","d","e","f","g","h","i","j","k","l","m",
               "n","o","p","q","r","s","t","u","v","w","x","y","z">>

LowerChar(c) ==
    IF \E i \in 1..26 : UpperCase[i] = c
    THEN LowerCase[CHOOSE i \in 1..26 : UpperCase[i] = c]
    ELSE c

\* str.lower()
Lower(s) == [i \in 1..Len(s) |-> LowerChar(s[i])]

\* sub in s
Contains(s, sub) ==
    \E i \in 1..(Len(s) - Len(sub) + 1) : SubSeq(s, i, i + Len(sub) - 1) = sub

\* name[:-1]
DropLast(s) == IF Len(s) = 0 THEN s ELSE SubSeq(s, 1, Len(s) - 1)

all_digits(val) == \A i \in 1..Len(val) : val[i] \in Digits

\* number of digits at the end of s
RECURSIVE TrailingDigits(_)
TrailingDigits(s) ==
    IF Len(s) > 0 /\ s[Len(s)] \in Digits
    THEN 1 + TrailingDigits(DropLast(s))
    ELSE 0

\* re.search(r"_[0-9]+$", s)
HasSuffix(s) ==
    LET k == TrailingDigits(s)
    IN k >= 1 /\ Len(s) > k /\ s[Len(s) - k] = "_"

\* re.sub(r"_[0-9]+$", "", s)
StripSuffix(s) ==
    IF HasSuffix(s) THEN SubSeq(s, 1, Len(s) - TrailingDigits(s) - 1) ELSE s

-----------------------------------------------------------------------------
(* Python dicts *)

Keys(d) == {d[i][1] : i \in 1..Len(d)}
Items(d) == {d[i] : i \in 1..Len(d)}
Get(d, k) == d[CHOOSE i \in 1..Len(d) : d[i][1] = k][2]

\* del d[k]
Del(d, k) == SelectSeq(d, LAMBDA kv : kv[1] # k)

\* d[k] = v
Set(d, k, v) ==
    IF k \in Keys(d)
    THEN [i \in 1..Len(d) |-> IF d[i][1] = k THEN <<k, v>> ELSE d[i]]
    ELSE Append(d, <<k, v>>)

-----------------------------------------------------------------------------
(* FunctionMap.expand_enum *)

NULL == <<"N", "U", "L", "L">>
Zero == <<"0">>

\* f"{enum_id}_{k}"
Prefixed(prefix, k) == prefix \o <<"_">> \o k

\* the loop of lines 200-205 over items[i..]
RECURSIVE RenameAll(_, _, _, _)
RenameAll(e, items, prefix, i) ==
    IF i > Len(items) THEN e
    ELSE LET k == items[i][1]
             v == items[i][2]
             deleted == Del(e, k)
         IN RenameAll(IF k = Zero THEN Set(deleted, NULL, v)
                      ELSE Set(deleted, Prefixed(prefix, k), v),
                      items, prefix, i + 1)

\* the loop of lines 208-211 over items[i..]
RECURSIVE RenameZero(_, _, _)
RenameZero(e, items, i) ==
    IF i > Len(items) THEN e
    ELSE LET k == items[i][1]
             v == items[i][2]
         IN RenameZero(IF k = Zero THEN Set(Del(e, k), NULL, v) ELSE e,
                       items, i + 1)

expand_enum(e, id) ==
    LET items == e
    IN IF ~all_digits(id)
       THEN RenameAll(e, items, StripSuffix(id), 1)
       ELSE RenameZero(e, items, 1)

-----------------------------------------------------------------------------
(* The data directory: data/linux/enums.json and data/linux/functions/      *)

dup == <<"d", "u", "p">>
dup2 == <<"d", "u", "p", "2">>
dup3 == <<"d", "u", "p", "3">>
mmap == <<"m", "m", "a", "p">>
read == <<"r", "e", "a", "d">>

Id7 == <<"7">>
IdProt2 == <<"P", "R", "O", "T", "_", "2">>
IdOflag == <<"O">>      \* named by functions/dup.json, absent from enums.json

\* enums.json: enum identifier -> dict
EnumsJson ==
    (Id7 :> << <<Zero, 0>>, <<<<"1">>, 1>> >>) @@
    (IdProt2 :> << <<Zero, 0>>, <<<<"R">>, 1>> >>)

\* functions/<name>.json: data["enums"], argument name -> enum identifier or null
FunctionsDir ==
    (dup :> << <<"fd", Id7>>, <<"flags", IdOflag>>, <<"buf", None>> >>) @@
    (dup2 :> << <<"fd", IdProt2>>, <<"flags", Id7>> >>) @@
    (mmap :> << <<"prot", IdProt2>>, <<"fd", Id7>> >>)

\* FunctionMap.__contains__
InFuncMap(funcname) == funcname \in DOMAIN FunctionsDir

\* FunctionMap.__getitem__: the arguments of the loaded Function
Arguments(funcname) ==
    LET data == FunctionsDir[funcname]
    IN [i \in 1..Len(data) |-> [name |-> data[i][1], enum |-> data[i][2]]]

-----------------------------------------------------------------------------
(* Host types.  A parameter type is what the plugin can observe of a        *)
(* tinfo_t: is_ptr(), get_type_name(), is_integral(), is_enum(), and the    *)
(* name of the pointee for a pointer.                                       *)

Ty(p, n, i, e, pt) ==
    [is_ptr |-> p, type_name |-> n, is_integral |-> i, is_enum |-> e, pointee |-> pt]

TInt == Ty(FALSE, None, TRUE, FALSE, None)
TFloat == Ty(FALSE, None, FALSE, FALSE, None)
TBool == Ty(FALSE, <<"b", "o", "o", "l">>, TRUE, FALSE, None)
TBOOL == Ty(FALSE, <<"B", "O", "O", "L">>, TRUE, FALSE, None)
TPtrInt == Ty(TRUE, None, FALSE, FALSE, None)
TPtrBool == Ty(TRUE, None, FALSE, FALSE, <<"b", "o", "o", "l">>)
\* a typedef named Bool whose real type is a pointer
TBoolPtr == Ty(TRUE, <<"B", "o", "o", "l">>, FALSE, FALSE, <<"b", "o", "o", "l">>)

MacroBool == <<"M", "A", "C", "R", "O", "_", "B", "O", "O", "L">>

\* tinfo_t.get_named_type(idati, name) of an enum type
NamedEnum(name) == Ty(FALSE, name, TRUE, TRUE, None)

\* BOOL of main (lines 328-329)
BOOL == NamedEnum(MacroBool)

Arg(n, t) == [name |-> n, type |-> t]

\* the declared types an import address can have before the first pass
Signatures == {
    [kind |-> "none", args |-> <<>>],          \* get_tinfo fails
    [kind |-> "other", args |-> <<>>],         \* neither function nor pointer to one
    [kind |-> "func", args |-> <<Arg("fd", TInt), Arg("flags", TInt)>>],
    [kind |-> "funcptr", args |-> <<Arg("fd", TBoolPtr), Arg("on", TBOOL)>>],
    [kind |-> "func", args |-> <<Arg("prot", TInt), Arg("buf", TPtrBool)>>],
    [kind |-> "funcptr", args |-> <<Arg("fd", TInt), Arg("flags", TPtrInt)>>],
    [kind |-> "func", args |-> <<Arg("x", TFloat), Arg("buf", TInt)>>] }

ImportNames == {dup, dup2, dup3, mmap, read}

FileTypeNames == { <<"E", "L", "F", "6", "4">>, <<"P", "E">> }

\* get_funcinfo(ea): <<is_ptr, funcdata>>; funcdata <<>> stands for None
get_funcinfo(ti, funcptr_addr) ==
    LET tif == ti[funcptr_addr]
    IN CASE tif.kind = "func" -> <<FALSE, tif.args>>
         [] tif.kind = "funcptr" -> <<TRUE, tif.args>>
         [] OTHER -> <<FALSE, <<>>>>

-----------------------------------------------------------------------------
(* get_or_add_enum.  h is the state the call reads and writes:              *)
(*   idati, enums (FunctionMap.enums), cache, calls, raised, ret            *)

ENUM_ == <<"E", "N", "U", "M", "_">>

\* f"ENUM_{enum_id}"
EnumName(id) == ENUM_ \o id

\* get_or_add_enum without the lookup of the existing type
enum_exists_never(types, enum_name) == FALSE

\* idc.get_enum(enum_name) != idaapi.BADADDR
enum_exists(types, enum_name) == enum_name \in DOMAIN types

\* idc.add_enum(-1, enum_name, hex_flag()): a new enum type without members
add_enum(types, enum_name) ==
    [n \in DOMAIN types \cup {enum_name} |-> IF n = enum_name THEN {} ELSE types[n]]

\* the idc.add_enum_member loop of lines 270-271
add_enum_members(types, enum_name, e) ==
    [types EXCEPT ![enum_name] = @ \cup Items(e)]

Call(fm, id, r, created, added) ==
    [funcmap |-> fm, enum_id |-> id, ret |-> r, created |-> created, added |-> added]

get_or_add_enum(h, funcmap, id) ==
    LET enum_name == EnumName(id)
        key == <<funcmap, id>>
    IN IF key \in h.cache
       THEN \* lru_cache hit: the body does not run
            [h EXCEPT !.ret = enum_name,
                      !.calls = Append(@, Call(funcmap, id, enum_name, FALSE, 0))]
       ELSE IF ~enum_exists(h.idati, enum_name)
       THEN LET created == add_enum(h.idati, enum_name)
            IN IF id \notin DOMAIN h.enums
               THEN \* FunctionMap.get_enum: self.enums[name] raises KeyError
                    [h EXCEPT !.idati = created, !.raised = TRUE,
                              !.calls = Append(@, Call(funcmap, id, None, TRUE, 0))]
               ELSE LET e == expand_enum(h.enums[id], id)
                    IN [h EXCEPT !.idati = add_enum_members(created, enum_name, e),
                                 !.enums = [@ EXCEPT ![id] = e],
                                 !.cache = @ \cup {key},
                                 !.ret = enum_name,
                                 !.calls = Append(@, Call(funcmap, id, enum_name,
                                                          TRUE, Len(e)))]
       ELSE [h EXCEPT !.cache = @ \cup {key},
                      !.ret = enum_name,
                      !.calls = Append(@, Call(funcmap, id, enum_name, FALSE, 0))]

-----------------------------------------------------------------------------
(* One iteration of the for loop of main (lines 330-364)                    *)

\* the iteration going on with the import's own name
normalize_keep(name) == name

\* lines 332-334: the name the iteration goes on with
normalize(name) == IF InFuncMap(DropLast(name)) THEN DropLast(name) ELSE name

\* the loop without the pointer test
skip_pointer_never(type) == FALSE

\* line 340
skip_pointer(type) == type.is_ptr

\* line 343
is_bool(type) ==
    type.type_name # None /\ Lower(type.type_name) \in { <<"b", "o", "o", "l">> }

\* a commit that does not depend on changed
commit_always(changed) == TRUE

\* line 355
commit(changed) == changed

\* the loop over funcdata (lines 339-354) from argument i on.
\* s: [args, replaced, h]; replaced is the set of argument positions whose
\* type was assigned (changed = replaced # {})
RECURSIVE retype(_, _, _, _, _)
retype(s, i, name, in_map, funcmap) ==
    IF s.h.raised \/ i > Len(s.args) THEN s
    ELSE LET arg == s.args[i]
         IN IF skip_pointer(arg.type)
            THEN retype(s, i + 1, name, in_map, funcmap)
            ELSE IF is_bool(arg.type)
            THEN retype([s EXCEPT !.args[i].type = BOOL,
                                  !.replaced = @ \cup {i}],
                        i + 1, name, in_map, funcmap)
            ELSE IF in_map /\ arg.type.is_integral /\ ~arg.type.is_enum
            THEN LET matching_args ==
                         SelectSeq(Arguments(name), LAMBDA a : a.name = arg.name)
                 IN IF Len(matching_args) > 0 /\ matching_args[1].enum # None
                    THEN LET h2 == get_or_add_enum(s.h, funcmap, matching_args[1].enum)
                         IN IF h2.raised
                            THEN [s EXCEPT !.h = h2]
                            ELSE retype([s EXCEPT !.h = h2,
                                                  !.args[i].type = NamedEnum(h2.ret),
                                                  !.replaced = @ \cup {i}],
                                        i + 1, name, in_map, funcmap)
                    ELSE retype(s, i + 1, name, in_map, funcmap)
            ELSE retype(s, i + 1, name, in_map, funcmap)

-----------------------------------------------------------------------------
(* The triggered pass: ActionHandler.activate -> AutoEnum._activate -> main *)

ELF == <<"E", "L", "F">>

\* main without the file type test
binary_type_linux(ftn) == "linux"

\* lines 320-322
binary_type(ftn) == IF Contains(ftn, ELF) THEN "linux" ELSE "windows"

\* get_imports: library_addr as filled by the import names callback
\* (import names without "@")
get_imports(table) == [i \in 1..Len(table) |-> <<table[i].name, table[i].ea>>]

Rec(import, name, ea, outcome, before, after, replaced, committed) ==
    [import |-> import, name |-> name, ea |-> ea, outcome |-> outcome,
     before |-> before, after |-> after, replaced |-> replaced,
     committed |-> committed]

\* activate is called; main runs up to the for loop (lines 316-329)
Activate ==
    /\ pc = "idle"
    /\ passes < MaxPasses
    /\ passes' = passes + 1
    /\ library_addr' = get_imports(import_table)
    /\ trace' = <<>>
    /\ IF binary_type(file_type_name) = "windows"
       THEN \* line 324 raises; activate catches, logs and returns 0
            /\ activated' = 0
            /\ UNCHANGED <<pc, func_map_enums, functions, idx>>
       ELSE /\ func_map_enums' = EnumsJson
            /\ functions' = library_addr'
            /\ idx' = 1
            /\ pc' = "loop"
            /\ UNCHANGED activated
    /\ UNCHANGED <<hostVars, cache, calls, applied, expandVars>>

\* one iteration of the for loop (lines 330-364)
Iterate ==
    /\ pc = "loop"
    /\ idx <= Len(functions)
    /\ LET import == functions[idx][1]
           addr == functions[idx][2]
           info == get_funcinfo(tinfo, addr)
           is_ptr == info[1]
           funcdata == info[2]
           name == normalize(import)
           in_map == InFuncMap(name)
           h == [idati |-> idati, enums |-> func_map_enums, cache |-> cache,
                 calls |-> calls, raised |-> FALSE, ret |-> None]
           s == retype([args |-> funcdata, replaced |-> {}, h |-> h],
                       1, name, in_map, passes)
           changed == s.replaced # {}
       IN /\ library_addr' = IF InFuncMap(DropLast(import))
                             THEN Set(library_addr, DropLast(import),
                                      Get(library_addr, import))
                             ELSE library_addr
          /\ IF Len(funcdata) = 0
             THEN \* line 337: continue
                  /\ idx' = idx + 1
                  /\ trace' = Append(trace, Rec(import, name, addr, "skipped",
                                                funcdata, funcdata, {}, FALSE))
                  /\ UNCHANGED <<tinfo, idati, func_map_enums, cache, calls,
                                 applied, pc, activated>>
             ELSE /\ idati' = s.h.idati
                  /\ func_map_enums' = s.h.enums
                  /\ cache' = s.h.cache
                  /\ calls' = s.h.calls
                  /\ IF s.h.raised
                     THEN \* KeyError leaves main; activate catches, logs, returns 0
                          /\ pc' = "idle"
                          /\ activated' = 0
                          /\ trace' = Append(trace, Rec(import, name, addr, "raised",
                                                        funcdata, s.args, s.replaced,
                                                        FALSE))
                          /\ UNCHANGED <<tinfo, applied, idx>>
                     ELSE /\ idx' = idx + 1
                          /\ trace' = Append(trace, Rec(import, name, addr, "done",
                                                        funcdata, s.args, s.replaced,
                                                        commit(changed)))
                          /\ IF commit(changed)
                             THEN \* lines 357-364: apply_tinfo(addr, ...)
                                  /\ tinfo' = [tinfo EXCEPT ![addr] =
                                        [kind |-> IF is_ptr THEN "funcptr" ELSE "func",
                                         args |-> s.args]]
                                  /\ applied' = Append(applied,
                                        [ea |-> addr, replaced |-> s.replaced,
                                         pass |-> passes])
                             ELSE UNCHANGED <<tinfo, applied>>
                          /\ UNCHANGED <<pc, activated>>
    /\ UNCHANGED <<file_type_name, import_table, tinfo0, refreshes, passes,
                   functions, expandVars>>

\* the loop is over: handle.refresh_view(True), activate returns 1
Refresh ==
    /\ pc = "loop"
    /\ idx > Len(functions)
    /\ refreshes' = refreshes + 1
    /\ pc' = "idle"
    /\ activated' = 1
    /\ UNCHANGED <<file_type_name, import_table, tinfo, tinfo0, idati, cache,
                   passes, func_map_enums, library_addr, functions, idx, trace,
                   calls, applied, expandVars>>

\* import tables of n imports with distinct names, import i at address i
ImportTables(n) ==
    {t \in [1..n -> [name : ImportNames, ea : 1..n]] :
        /\ \A i \in 1..n : t[i].ea = i
        /\ \A i, j \in 1..n : i # j => t[i].name # t[j].name}

Init ==
    /\ file_type_name \in FileTypeNames
    /\ \E n \in 1..MaxImports :
          /\ import_table \in ImportTables(n)
          /\ tinfo \in [1..n -> Signatures]
    /\ tinfo0 = tinfo
    /\ idati = <<>>
    /\ refreshes = 0
    /\ cache = {}
    /\ passes = 0
    /\ pc = "idle"
    /\ func_map_enums = <<>>
    /\ library_addr = <<>>
    /\ functions = <<>>
    /\ idx = 0
    /\ activated = -1
    /\ trace = <<>>
    /\ calls = <<>>
    /\ applied = <<>>
    /\ enum = <<>>
    /\ enum_id = <<>>
    /\ ret = NoDict

Next == Activate \/ Iterate \/ Refresh

Spec == Init /\ [][Next]_vars

-----------------------------------------------------------------------------
(* expand_enum on its own: every small dict with every identifier           *)

Labels == {Zero, NULL, <<"A">>, <<"X", "_", "A">>}
Values == {1, 2}
Ids == { <<"X">>, <<"X", "_", "1">>, <<"X", "1">>, <<"X", "_", "1", "_", "2">>,
         <<"4", "2">>, <<"7">> }

Dicts ==
    UNION { {d \in [1..n -> Labels \X Values] :
                \A i, j \in 1..n : i # j => d[i][1] # d[j][1]} : n \in 0..MaxLabels }

InitExpand ==
    /\ enum \in Dicts
    /\ enum_id \in Ids
    /\ ret = NoDict
    /\ file_type_name = <<"E", "L", "F", "6", "4">>
    /\ import_table = <<>>
    /\ tinfo = <<>>
    /\ tinfo0 = <<>>
    /\ idati = <<>>
    /\ refreshes = 0
    /\ cache = {}
    /\ passes = 0
    /\ pc = "idle"
    /\ func_map_enums = <<>>
    /\ library_addr = <<>>
    /\ functions = <<>>
    /\ idx = 0
    /\ activated = -1
    /\ trace = <<>>
    /\ calls = <<>>
    /\ applied = <<>>

\* expand_enum(enum, enum_id) is called once; it returns enum, mutated in place
ExpandEnum ==
    /\ ret = NoDict
    /\ ret' = expand_enum(enum, enum_id)
    /\ UNCHANGED <<enum, enum_id, hostVars, passVars>>

NextExpand == ExpandEnum

SpecExpand == InitExpand /\ [][NextExpand]_vars

-----------------------------------------------------------------------------
(* Properties of expand_enum (checked under SpecExpand)                     *)

\* the result the renaming rule of a non-numeric identifier describes
PrefixedItems(e, id) ==
    {<<IF kv[1] = Zero THEN NULL ELSE Prefixed(StripSuffix(id), kv[1]), kv[2]>> :
        kv \in Items(e)}

\* the result the renaming rule of a numeric identifier describes
ZeroRenamedItems(e) ==
    {<<IF kv[1] = Zero THEN NULL ELSE kv[1], kv[2]>> : kv \in Items(e)}

\* how often value v occurs in dict d
Count(d, v) == Cardinality({i \in 1..Len(d) : d[i][2] = v})

\* C1: for a non-numeric identifier the returned dict maps NULL to the value
\* of label "0", <prefix>_<L> to the value of every other label L, and has
\* no other label, for every label set (also one holding <prefix>_<L'> or NULL)
C1_AllLabelsPrefixed ==
    (ret # NoDict /\ ~all_digits(enum_id)) =>
        /\ Items(ret) = PrefixedItems(enum, enum_id)
        /\ Len(ret) = Len(enum)

\* C2: for an identifier made of digits only the label "0" is renamed (to
\* NULL), every other label is kept, and the multiset of values is preserved,
\* also when the dict holds NULL besides "0"
C2_NumericOnlyZeroRenamed ==
    (ret # NoDict /\ all_digits(enum_id)) =>
        /\ Items(ret) = ZeroRenamedItems(enum)
        /\ \A v \in Values : Count(ret, v) = Count(enum, v)

-----------------------------------------------------------------------------
(* Properties of the triggered pass (checked under Spec)                    *)

\* C3: two calls of get_or_add_enum with an identifier of the enum database,
\* in one pass or in two passes, both return ENUM_<identifier>, and the
\* second creates no enum type and adds no member
C3_RegistrationIdempotent ==
    \A i, j \in 1..Len(calls) :
        (i < j /\ calls[i].enum_id = calls[j].enum_id
               /\ calls[i].enum_id \in DOMAIN EnumsJson) =>
            /\ calls[i].ret = EnumName(calls[i].enum_id)
            /\ calls[j].ret = calls[i].ret
            /\ ~calls[j].created
            /\ calls[j].added = 0
            /\ idati[calls[j].ret] =
                   Items(expand_enum(EnumsJson[calls[j].enum_id], calls[j].enum_id))

\* an identifier of the enum database was looked up twice in one pass and
\* again in a later pass
C3_Witness ==
    \E i, j, k \in 1..Len(calls) :
        /\ i < j /\ j < k
        /\ calls[i].enum_id \in DOMAIN EnumsJson
        /\ calls[j].enum_id = calls[i].enum_id
        /\ calls[k].enum_id = calls[i].enum_id
        /\ calls[i].created
        /\ calls[j].funcmap = calls[i].funcmap
        /\ calls[k].funcmap # calls[i].funcmap

\* C4: a lookup error of a missing enum identifier aborts only the function
\* it occurs in: when the pass has ended the functions after it in the
\* import table have been processed too
C4_ErrorAbortsOnlyFunction ==
    \A i \in 1..Len(trace) :
        (pc = "idle" /\ trace[i].outcome = "raised" /\ i < Len(functions)) =>
            Len(trace) > i

\* C5: with a file type name that does not contain "ELF" the pass fails
\* before the loop: no function is processed, no enum type is created, no
\* function type is committed, the view is never refreshed
C5_PlatformGate ==
    ~Contains(file_type_name, ELF) =>
        /\ pc = "idle"
        /\ trace = <<>>
        /\ calls = <<>>
        /\ DOMAIN idati = {}
        /\ applied = <<>>
        /\ tinfo = tinfo0
        /\ refreshes = 0
        /\ passes > 0 => activated = 0

\* the action was triggered on a binary of an unsupported file type
C5_Witness ==
    /\ ~Contains(file_type_name, ELF)
    /\ passes > 0
    /\ activated = 0
    /\ \E ea \in DOMAIN tinfo : tinfo[ea].kind = "func"

\* C6: the type of a pointer parameter after any pass is its type before
\* the first pass, whatever its pointee or type name and whether or not the
\* function database names an enum for the argument
C6_PointerParamsUnchanged ==
    /\ \A ea \in DOMAIN tinfo0 : \A i \in 1..Len(tinfo0[ea].args) :
          tinfo0[ea].args[i].type.is_ptr =>
              /\ Len(tinfo[ea].args) = Len(tinfo0[ea].args)
              /\ tinfo[ea].args[i] = tinfo0[ea].args[i]
    /\ \A r \in 1..Len(trace) : \A i \in 1..Len(trace[r].before) :
          trace[r].before[i].type.is_ptr =>
              trace[r].after[i] = trace[r].before[i]

\* a type was committed for a function with a pointer parameter that is
\* named bool, points to bool, and has an enum in the function database
C6_Witness ==
    \E r \in 1..Len(trace) : \E i \in 1..Len(trace[r].before) :
        LET rec == trace[r]
            arg == rec.before[i]
        IN /\ rec.committed
           /\ tinfo[rec.ea] # tinfo0[rec.ea]
           /\ arg.type.is_ptr
           /\ is_bool(arg.type)
           /\ arg.type.pointee = <<"b", "o", "o", "l">>
           /\ InFuncMap(rec.name)
           /\ \E a \in 1..Len(Arguments(rec.name)) :
                 /\ Arguments(rec.name)[a].name = arg.name
                 /\ Arguments(rec.name)[a].enum # None

\* C7: apply_tinfo is called for an address only when a parameter of that
\* function was replaced in the iteration; the declared type of every other
\* function is the one it had
C7_NoSpuriousCommit ==
    /\ \A a \in 1..Len(applied) : applied[a].replaced # {}
    /\ \A r \in 1..Len(trace) :
          /\ trace[r].committed => trace[r].replaced # {}
          /\ trace[r].committed =>
                \E a \in 1..Len(applied) :
                    applied[a].ea = trace[r].ea /\ applied[a].pass = passes
          /\ ~trace[r].committed =>
                ~\E a \in 1..Len(applied) :
                    applied[a].ea = trace[r].ea /\ applied[a].pass = passes
    /\ \A ea \in DOMAIN tinfo :
          (~\E a \in 1..Len(applied) : applied[a].ea = ea) => tinfo[ea] = tinfo0[ea]

\* a function with parameters went through the loop and none was replaced
C7_Witness ==
    \E r \in 1..Len(trace) :
        /\ trace[r].outcome = "done"
        /\ Len(trace[r].before) > 0
        /\ trace[r].replaced = {}
        /\ ~trace[r].committed
        /\ tinfo[trace[r].ea] = tinfo0[trace[r].ea]

\* the address of import n in the import table
AddressOf(n) ==
    import_table[CHOOSE i \in 1..Len(import_table) : import_table[i].name = n].ea

\* the enum identifier functions/<funcname>.json gives argument argname, or None
EnumOf(funcname, argname) ==
    LET named == SelectSeq(FunctionsDir[funcname], LAMBDA kv : kv[1] = argname)
    IN IF Len(named) = 0 THEN None ELSE named[1][2]

\* parameter type t of an argument named n is one the entry of funcname retypes
RetypedBy(funcname, n, t) ==
    /\ ~t.is_ptr
    /\ ~(t.type_name # None /\ Lower(t.type_name) = <<"b", "o", "o", "l">>)
    /\ t.is_integral /\ ~t.is_enum
    /\ EnumOf(funcname, n) # None

\* C8: an import N whose N[:-1] is in the function database is matched with
\* the entry of N[:-1]: the parameters that entry gives an enum, and only
\* those, get that enum's type, and the type is read from and committed to
\* the address of N
C8_AliasTolerance ==
    \A r \in 1..Len(trace) :
        LET rec == trace[r]
            stripped == DropLast(rec.import)
        IN InFuncMap(stripped) =>
            /\ rec.name = stripped
            /\ rec.ea = AddressOf(rec.import)
            /\ tinfo[rec.ea].args = IF rec.committed THEN rec.after ELSE rec.before
            /\ rec.outcome = "done" =>
                  \A i \in 1..Len(rec.before) :
                      IF RetypedBy(stripped, rec.before[i].name, rec.before[i].type)
                      THEN rec.after[i].type =
                               NamedEnum(EnumName(EnumOf(stripped, rec.before[i].name)))
                      ELSE rec.after[i].type \in {rec.before[i].type, BOOL}

\* an import that is not in the function database itself was retyped with an
\* enum of the entry of its name without the last character
C8_Witness ==
    \E r \in 1..Len(trace) : \E i \in 1..Len(trace[r].before) :
        LET rec == trace[r]
        IN /\ ~InFuncMap(rec.import)
           /\ InFuncMap(DropLast(rec.import))
           /\ rec.committed
           /\ i \in rec.replaced
           /\ rec.after[i].type =
                  NamedEnum(EnumName(EnumOf(DropLast(rec.import), rec.before[i].name)))
           /\ tinfo[AddressOf(rec.import)].args = rec.after

\* C9: every enum type of the host type database has exactly the members of
\* the canonicalized enum of its identifier, and no lookup of an identifier
\* that is not in the enum database returns a display name
C9_EnumTypesComplete ==
    /\ \A n \in DOMAIN idati :
          \E id \in DOMAIN EnumsJson :
              /\ n = EnumName(id)
              /\ idati[n] = Items(expand_enum(EnumsJson[id], id))
    /\ \A c \in 1..Len(calls) :
          calls[c].enum_id \notin DOMAIN EnumsJson => calls[c].ret = None

\* C10: an import whose exact name is in the function database is matched
\* with the entry of that name
C10_ExactNameMatched ==
    \A r \in 1..Len(trace) :
        InFuncMap(trace[r].import) => trace[r].name = trace[r].import

=============================================================================
